---- MODULE Spec2Model ----
(***************************************************************************)
(* Command-side worker of rustic-dendrite (src/axon_utils/command_worker.rs *)
(* and src/axon_utils/handler_registry.rs).                                *)
(*                                                                         *)
(* Two tasks run per worker: the inbound loop of command_worker, which     *)
(* reads commands, runs the command handler through an AggregateContext,   *)
(* applies and stores the emitted events and sends an AxonCommandResult on *)
(* a bounded channel; and the generator of create_output_stream, which     *)
(* yields the Subscribe messages, the flow-control permits and one         *)
(* CommandResponse per result.                                             *)
(*                                                                         *)
(* A projection is modelled by the sequence of event types that the        *)
(* sourcing handlers have folded into it, so that two projections are      *)
(* equal exactly when they are the fold of the same events.  UUIDs and     *)
(* timestamps are fresh values that no decision of the code reads; they    *)
(* are left out of the messages.  The LRU cache holds 1024 entries; the    *)
(* model uses fewer aggregate ids than that, so nothing is ever evicted.   *)
(***************************************************************************)
EXTENDS Integers, Sequences, FiniteSets, TLC

\* ------------------------------------------------------------------ bounds

\* The runs explored are of four kinds, chosen when the worker starts.  In a
\* "handlers" run the command handlers call emit and get_projection and the
\* inbound stream stays open; in a "stream" run the handlers return without
\* calling the context, more commands are read, and the inbound stream may
\* end or fail; in a "burst" run many commands of one kind arrive, each
\* handled by a handler that returns Ok at once, so that the channel between
\* the two tasks can fill up; in a "conflict" run two aggregates of the
\* registry declare the same command name.
\* Commands read from the inbound stream in a "stream" run.
MaxCommands == 3
\* Commands read from the inbound stream in a "handlers" run.
MaxHandled == 2
\* Commands read from the inbound stream in a "burst" run.
MaxBurst == 12
\* Commands read from the inbound stream in a "conflict" run.
MaxConflicting == 1
\* Commands read in a run whose event store holds an event of a type that
\* the worker has no sourcing handler for.
MaxReplaying == 2
\* Calls of the insert functions made on one handler registry.
MaxInserts == 3
\* emit calls that the command handlers of one run make in total.
MaxEmit == 2
\* get_projection calls that the command handlers of one run make in total.
MaxGetProjection == 3

\* ------------------------------------------------------- program constants

\* channel(10)
QueueCapacity == 10
\* let permits_batch_size: i64 = 3
permits_batch_size == 3
\* load_factor: 100
LoadFactor == 100
\* seq: -1 of a fresh AggregateContext
UninitialisedSeq == -1

\* ------------------------------------------------------------------ values

\* Option<T>: None is <<>>, Some(v) is <<v>>.
NoneV == <<>>
Some(v) == <<v>>

AggregateIds == {"a", "b"}

\* Event types.  "A" and "B" have a sourcing handler that returns a new
\* projection, "N" one that returns Ok(None), "F" one that returns an error,
\* and "X" has no sourcing handler.
EmitTypes == {"A", "B", "N", "X"}
SourcingHandlerNames == {"A", "B", "N", "F"}

\* The aggregate definitions (projection_name) that a run can have in its
\* registry.  "Greeting" and "Salute" both declare the command "Greet".
AggregateNames == {"Greeting", "Counter", "Salute"}

\* AggregateHandle::command_names: the keys of the aggregate's command-handler
\* registry.
command_names(aggregate_name) ==
    IF aggregate_name = "Counter" THEN <<"Count">> ELSE <<"Greet">>

\* How each command handler was inserted into the handler registry.
HandlerKind(command_name) ==
    IF command_name = "Greet" THEN "with_output" ELSE "void"

\* Command names the server may send: the registered ones and one that no
\* aggregate declares.
InboundCommandNames == {"Greet", "Count", "Unknown"}

\* Payload of an inbound command: absent, bytes the decoder rejects, bytes it
\* accepts.
Payloads == {"none", "bad", "good"}

\* An Event message as encode_event_with_timestamp builds it.
Event(aggregate_id, aggregate_name, seq, payload) ==
    [aggregate_identifier |-> aggregate_id,
     aggregate_sequence_number |-> seq,
     aggregate_type |-> aggregate_name,
     payload |-> payload]

\* The event streams present on the server when the worker starts, given by
\* the payload types of their events (sequence numbers 0, 1, ...): aggregate
\* "a" has a history, aggregate "b" is new.
InitHistory(aggregate_id) ==
    IF aggregate_id = "a" THEN <<"A", "B">> ELSE <<>>

\* In the "replay" runs the stream of aggregate "b" holds an event of a type
\* without sourcing handler, written by another application.
ForeignHistory(aggregate_id) ==
    IF aggregate_id = "b" THEN <<"A", "X">> ELSE InitHistory(aggregate_id)

History(aggregate_id, types) ==
    [i \in 1..Len(types) |-> Event(aggregate_id, "Greeting", i - 1, Some(types[i]))]

\* ------------------------------------------------------ handler registry

\* TheHandlerRegistry::get on the sourcing-handler registry, followed by the
\* handle of the subscription found: decode, invoke, wrap.  The result is
\* [ok, out]: out is the Option<P> the sourcing handler hands back.
SourcingHandle(type, projection) ==
    IF type \in {"A", "B"}
    THEN [ok |-> TRUE, out |-> Some(Append(projection, type))]
    ELSE IF type = "N"
    THEN [ok |-> TRUE, out |-> NoneV]
    ELSE [ok |-> FALSE, out |-> NoneV]

\* Subscription::handle and SubscriptionVoid::handle for a command handler
\* that returned Ok(r): a void handler and a handler without wrapper yield
\* None, a handler inserted with insert_with_output yields its own value.
SubscriptionHandle(kind, r) ==
    IF kind = "with_output" THEN r ELSE NoneV

\* The names and the handler functions that are inserted into a registry.
HandlerNames == {"Greet", "Count"}
HandlerFunctions == {"h1", "h2"}

\* empty_handler_registry: handlers is HashMap::new().
empty_handler_registry == [n \in {} |-> NoneV]

\* The handles that the four insert functions box.
SubscriptionVoidHandle(name, handler) ==
    [struct |-> "SubscriptionVoid", name |-> name, handler |-> handler,
     wrapper |-> NoneV]

SubscriptionStructHandle(name, handler, wrapper) ==
    [struct |-> "Subscription", name |-> name, handler |-> handler,
     wrapper |-> wrapper]

ResponseWrapper(type_name, convert) ==
    [type_name |-> type_name, convert |-> convert]

\* if handlers.contains_key(&key) { return Err(...) }; handlers.insert(key,
\* handle); Ok(()): the tail that the four insert functions share.
InsertHandle(registry, key, handle) ==
    IF key \in DOMAIN registry
    THEN [ok |-> FALSE, err |-> "Handler already registered", handlers |-> registry]
    ELSE [ok |-> TRUE, err |-> "",
          handlers |-> [n \in DOMAIN registry \cup {key} |->
                          IF n = key THEN handle ELSE registry[n]]]

\* An insert that replaces the handle found under the name.
InsertHandleReplacing(registry, key, handle) ==
    [ok |-> TRUE, err |-> "",
     handlers |-> [n \in DOMAIN registry \cup {key} |->
                     IF n = key THEN handle ELSE registry[n]]]

\* TheHandlerRegistry::insert
insert(registry, name, handler) ==
    InsertHandle(registry, name, SubscriptionVoidHandle(name, handler))

\* TheHandlerRegistry::insert_ignoring_output
insert_ignoring_output(registry, name, handler) ==
    InsertHandle(registry, name, SubscriptionStructHandle(name, handler, NoneV))

\* insert_with_output that replaces the handle found under the name.
insert_with_output_replacing(registry, name, handler) ==
    InsertHandleReplacing(registry, name,
        SubscriptionStructHandle(name, handler,
                                 Some(ResponseWrapper("UNKNOWN", "clone"))))

\* TheHandlerRegistry::insert_with_output
insert_with_output(registry, name, handler) ==
    InsertHandle(registry, name,
        SubscriptionStructHandle(name, handler,
                                 Some(ResponseWrapper("UNKNOWN", "clone"))))

\* TheHandlerRegistry::insert_with_mapped_output
insert_with_mapped_output(registry, name, handler, type_name, wrapper) ==
    InsertHandle(registry, name,
        SubscriptionStructHandle(name, handler,
                                 Some(ResponseWrapper(type_name, wrapper))))

\* TheHandlerRegistry::get
get(registry, name) ==
    IF name \in DOMAIN registry THEN Some(registry[name]) ELSE NoneV

\* ------------------------------------------------------ aggregate context

\* The AggregateContext that internal_handle_command creates.
NewContext(aggregate_name) ==
    [aggregate_definition |-> aggregate_name,
     events |-> <<>>,
     aggregate_id |-> NoneV,
     projection |-> <<>>,
     seq |-> UninitialisedSeq]

\* The context of an inbound loop that is not handling a command.
NoContext == NewContext("")

\* AggregateContext::emit
emit(context, event_type) ==
    [context EXCEPT !.events = Append(@, event_type)]

\* The replay loop of get_projection: folds the events the query returned
\* into the projection; stops at the first event whose payload type has no
\* sourcing handler or whose sourcing handler fails, keeping what the loop
\* had assigned until then.
RECURSIVE Replay(_, _, _)
Replay(events, projection, seq) ==
    IF events = <<>>
    THEN [ok |-> TRUE, projection |-> projection, seq |-> seq, err |-> ""]
    ELSE LET event == Head(events) IN
         IF event.payload = NoneV
         THEN Replay(Tail(events), projection, event.aggregate_sequence_number)
         ELSE LET type == event.payload[1] IN
              IF type \notin SourcingHandlerNames
              THEN [ok |-> FALSE, projection |-> projection, seq |-> seq,
                    err |-> "Missing sourcing handler"]
              ELSE LET r == SourcingHandle(type, projection) IN
                   IF ~r.ok
                   THEN [ok |-> FALSE, projection |-> projection, seq |-> seq,
                         err |-> "Sourcing handler error"]
                   ELSE Replay(Tail(events),
                               IF r.out # NoneV THEN r.out[1] ELSE projection,
                               event.aggregate_sequence_number)

\* The suspension points and the cache-lock operations that a piece of code
\* passes, in program order: "lock" and "unlock" for the MutexGuard of
\* aggregate_definition.cache, "await ..." for an .await.

\* A block that takes the cache lock and keeps the guard after its end.
LockSectionKeepingGuard == <<"lock">>

\* { let mut cache = aggregate_definition.cache.lock()...; ... }: the guard
\* is a local of the block and is dropped at its closing brace; the block
\* holds no .await.
LockSection == <<"lock", "unlock">>

\* The awaits of a loop that runs events through their sourcing handlers: one
\* await per handler called; the loop ends at an event without sourcing
\* handler and after a handler that failed.
RECURSIVE SourcingAwaits(_)
SourcingAwaits(payloads) ==
    IF payloads = <<>> THEN <<>>
    ELSE IF Head(payloads) = NoneV THEN SourcingAwaits(Tail(payloads))
    ELSE IF Head(payloads)[1] \notin SourcingHandlerNames THEN <<>>
    ELSE <<"await sourcing handler">>
         \o (IF SourcingHandle(Head(payloads)[1], <<>>).ok
             THEN SourcingAwaits(Tail(payloads)) ELSE <<>>)

\* The aggregate_id of the context after the first lines of get_projection.
\* When the context already has another id the code builds an error value
\* with anyhow! and drops it: nothing is returned there and the id is kept.
SetAggregateId(context, aggregate_id) ==
    IF context.aggregate_id # NoneV
    THEN context
    ELSE [context EXCEPT !.aggregate_id = Some(aggregate_id)]

\* A get_projection that asks the server on every call.
NeedsQueryAlways(seq) == TRUE

\* if self.seq < 0: the events are asked for only while the context has no
\* sequence number.
NeedsQuery(seq) == seq < 0

\* AggregateContext::get_projection.  cache is the cache of the context's
\* aggregate definition, query the answer of query_events_from_client for
\* aggregate_id ([ok, events]), used only when the code issues the query.
\* The result holds the context and the cache after the call, whether the
\* call returned Ok, whether the query was issued, and the lock operations
\* and awaits the call passed.
get_projection(context, cache, aggregate_id, query) ==
    LET c1 == SetAggregateId(context, aggregate_id)
        hit == cache[aggregate_id]
        c2 == IF hit # NoneV
              THEN [c1 EXCEPT !.projection = hit[1].projection, !.seq = hit[1].seq]
              ELSE c1
    IN  IF NeedsQuery(c2.seq)
        THEN IF ~query.ok
             THEN [context |-> c2, cache |-> cache, ok |-> FALSE,
                   err |-> "Event query failed", queried |-> TRUE,
                   trace |-> LockSection \o <<"await query">>]
             ELSE LET r == Replay(query.events, c2.projection, c2.seq)
                      c3 == [c2 EXCEPT !.projection = r.projection, !.seq = r.seq]
                      replayed == LockSection \o <<"await query">>
                                  \o SourcingAwaits([n \in 1..Len(query.events) |->
                                                       query.events[n].payload])
                  IN  IF ~r.ok
                      THEN [context |-> c3, cache |-> cache, ok |-> FALSE,
                            err |-> r.err, queried |-> TRUE, trace |-> replayed]
                      ELSE [context |-> c3,
                            cache |-> IF c3.seq >= 0
                                      THEN [cache EXCEPT ![aggregate_id] =
                                              Some([seq |-> c3.seq,
                                                    projection |-> c3.projection])]
                                      ELSE cache,
                            ok |-> TRUE, err |-> "", queried |-> TRUE,
                            trace |-> replayed \o (IF c3.seq >= 0 THEN LockSection
                                                   ELSE <<>>)]
        ELSE [context |-> c2, cache |-> cache, ok |-> TRUE, err |-> "",
              queried |-> FALSE, trace |-> LockSection]

\* ------------------------------------------------------- command dispatch

\* encode_event_with_timestamp with the aggregate type of the demo written
\* into every event.
encode_event_with_fixed_type(type_name, aggregate_name, aggregate_id, next_seq) ==
    Event(aggregate_id, "Greeting", next_seq, Some(type_name))

\* encode_event_with_timestamp: the Event message of one emitted pair.
encode_event_with_timestamp(type_name, aggregate_name, aggregate_id, next_seq) ==
    Event(aggregate_id, aggregate_name, next_seq, Some(type_name))

\* encode_event
encode_event(type_name, aggregate_name, aggregate_id, next_seq) ==
    encode_event_with_timestamp(type_name, aggregate_name, aggregate_id, next_seq)

\* A loop over the emitted events that passes over an event without sourcing
\* handler instead of failing.
RECURSIVE ApplyNewEventsSkippingUnknown(_, _, _)
ApplyNewEventsSkippingUnknown(events, context, next_seq) ==
    IF events = <<>>
    THEN [ok |-> TRUE, context |-> context, next_seq |-> next_seq, err |-> ""]
    ELSE LET type == Head(events) IN
         IF type \notin SourcingHandlerNames
         THEN ApplyNewEventsSkippingUnknown(Tail(events), context, next_seq)
         ELSE LET r == SourcingHandle(type, context.projection) IN
              IF ~r.ok
              THEN [ok |-> FALSE, context |-> context, next_seq |-> next_seq,
                    err |-> "Sourcing handler error"]
              ELSE IF r.out # NoneV
              THEN ApplyNewEventsSkippingUnknown(Tail(events),
                                                 [context EXCEPT !.projection = r.out[1],
                                                                 !.seq = next_seq],
                                                 next_seq + 1)
              ELSE ApplyNewEventsSkippingUnknown(Tail(events), context, next_seq)

\* The loop of internal_handle_command over the emitted events: each is
\* encoded with next_seq and run through its sourcing handler; only a handler
\* that returns a projection advances seq and next_seq.
RECURSIVE ApplyNewEvents(_, _, _)
ApplyNewEvents(events, context, next_seq) ==
    IF events = <<>>
    THEN [ok |-> TRUE, context |-> context, next_seq |-> next_seq, err |-> ""]
    ELSE LET event == encode_event(Head(events), context.aggregate_definition,
                                   context.aggregate_id[1], next_seq)
             type == event.payload[1]
         IN  IF type \notin SourcingHandlerNames
             THEN [ok |-> FALSE, context |-> context, next_seq |-> next_seq,
                   err |-> "Missing sourcing handler"]
             ELSE LET r == SourcingHandle(type, context.projection) IN
                  IF ~r.ok
                  THEN [ok |-> FALSE, context |-> context, next_seq |-> next_seq,
                        err |-> "Sourcing handler error"]
                  ELSE IF r.out # NoneV
                  THEN ApplyNewEvents(Tail(events),
                                      [context EXCEPT !.projection = r.out[1],
                                                      !.seq = next_seq],
                                      next_seq + 1)
                  ELSE ApplyNewEvents(Tail(events), context, next_seq)

\* internal_handle_command after the handler returned Ok(result): applies the
\* emitted events to the context and puts the outcome into the cache when at
\* least one event advanced next_seq.  The result holds the cache afterwards,
\* the tuple (result, events, aggregate_id, last_stored_seq) returned, and
\* the lock operations and awaits passed after the handler returned.
internal_handle_command(context, cache, result) ==
    LET last_stored_seq == context.seq IN
    IF context.aggregate_id = NoneV
    THEN [ok |-> TRUE, err |-> "", cache |-> cache, result |-> result,
          events |-> context.events, aggregate_id |-> NoneV,
          seq |-> last_stored_seq, context |-> context,
          trace |-> <<"await context lock">>]
    ELSE LET a == ApplyNewEvents(context.events, context, last_stored_seq + 1)
             applied == <<"await context lock">>
                        \o SourcingAwaits([n \in 1..Len(context.events) |->
                                             Some(context.events[n])])
         IN
         IF ~a.ok
         THEN [ok |-> FALSE, err |-> a.err, cache |-> cache, result |-> NoneV,
               events |-> <<>>, aggregate_id |-> context.aggregate_id,
               seq |-> last_stored_seq, context |-> a.context,
               trace |-> applied]
         ELSE [ok |-> TRUE, err |-> "",
               cache |-> IF a.next_seq > last_stored_seq + 1
                         THEN [cache EXCEPT ![context.aggregate_id[1]] =
                                 Some([seq |-> a.context.seq,
                                       projection |-> a.context.projection])]
                         ELSE cache,
               result |-> result, events |-> context.events,
               aggregate_id |-> context.aggregate_id,
               seq |-> last_stored_seq, context |-> a.context,
               trace |-> applied \o (IF a.next_seq > last_stored_seq + 1
                                     THEN LockSection ELSE <<>>)]

\* The event messages store_events sends in its one append_event call.
store_events(aggregate_name, aggregate_id, events, next_seq) ==
    [i \in 1..Len(events) |->
        encode_event_with_timestamp(events[i], aggregate_name, aggregate_id, next_seq)]

\* handle_command without the check of the aggregate id: events emitted
\* without an id are passed over in silence.
StoreDecisionWithoutIdCheck(events, aggregate_id) ==
    IF events = <<>> \/ aggregate_id = NoneV THEN "skip" ELSE "store"

\* What handle_command does with the tuple of internal_handle_command:
\* nothing when no event was emitted, an error when events were emitted and
\* the context has no aggregate id, the append otherwise.
StoreDecision(events, aggregate_id) ==
    IF events = <<>> THEN "skip"
    ELSE IF aggregate_id = NoneV THEN "missing_id"
    ELSE "store"

\* A Result<Option<EmitEventsAndResponse>>.
OkResult(response) == [ok |-> TRUE, err |-> "", response |-> response]
ErrResult(message) == [ok |-> FALSE, err |-> message, response |-> NoneV]
NoResult == ErrResult("")

\* A dispatch that hands a command without payload to its handler.
DispatchWithoutPayloadCheck(mapping, name, payload) ==
    IF name \notin DOMAIN mapping THEN "no_aggregate"
    ELSE IF mapping[name] \notin AggregateNames THEN "no_aggregate"
    ELSE IF \A i \in 1..Len(command_names(mapping[name])) :
                command_names(mapping[name])[i] # name
    THEN "missing_handler"
    ELSE IF payload = "bad" THEN "decode_error"
    ELSE "handler"

\* The outcome of the lookups that command_worker and handle_command make
\* before a handler runs, and of the decoding of the payload.
Dispatch(mapping, name, payload) ==
    IF name \notin DOMAIN mapping THEN "no_aggregate"
    ELSE IF mapping[name] \notin AggregateNames THEN "no_aggregate"
    ELSE IF \A i \in 1..Len(command_names(mapping[name])) :
                command_names(mapping[name])[i] # name
    THEN "missing_handler"
    ELSE IF payload = "none" THEN "missing_payload"
    ELSE IF payload = "bad" THEN "decode_error"
    ELSE "handler"

DispatchError(outcome) ==
    IF outcome = "no_aggregate" THEN "Could not find aggregate handler"
    ELSE IF outcome = "missing_handler" THEN "Missing command handler"
    ELSE IF outcome = "missing_payload" THEN "No payload data"
    ELSE "Decode error"

\* TheAggregateRegistry::register_commands, iterating the registry's HashMap
\* in the given order: the command vector, and the command-to-aggregate map
\* in which a later aggregate replaces an earlier one under the same name.
RECURSIVE register_commands(_, _, _)
register_commands(order, commands, mapping) ==
    IF order = <<>>
    THEN [commands |-> commands, mapping |-> mapping]
    ELSE LET aggregate_name == Head(order)
             names == command_names(aggregate_name)
             range == {names[i] : i \in 1..Len(names)}
         IN  register_commands(
                 Tail(order),
                 commands \o names,
                 [c \in DOMAIN mapping \cup range |->
                     IF c \in range THEN aggregate_name ELSE mapping[c]])

\* The iteration orders a HashMap of the registered aggregates can have.
RegistryOrders(aggregates) ==
    {o \in [1..Cardinality(aggregates) -> aggregates] :
        \A i, j \in DOMAIN o : i # j => o[i] # o[j]}

\* The runs explored.  The registry holds the aggregates Greeting and
\* Counter, iterated in every order in the "stream" runs and in one order in
\* the "handlers", "replay" and "burst" runs (the order decides nothing but
\* the order of the Subscribe messages); in the "conflict" runs it holds
\* Greeting and Salute, in every order.
Runs ==
    {[kind |-> "stream", order |-> o] : o \in RegistryOrders({"Greeting", "Counter"})}
    \cup {[kind |-> "handlers", order |-> <<"Greeting", "Counter">>]}
    \cup {[kind |-> "replay", order |-> <<"Greeting", "Counter">>]}
    \cup {[kind |-> "burst", order |-> <<"Greeting", "Counter">>]}
    \cup {[kind |-> "conflict", order |-> o] :
              o \in RegistryOrders({"Greeting", "Salute"})}

CommandBound(kind) ==
    IF kind = "handlers" THEN MaxHandled
    ELSE IF kind = "replay" THEN MaxReplaying
    ELSE IF kind = "burst" THEN MaxBurst
    ELSE IF kind = "conflict" THEN MaxConflicting
    ELSE MaxCommands

\* The commands that arrive in a run of the given kind.
InboundCommands(kind) ==
    IF kind = "burst"
    THEN {[name |-> "Count", payload |-> "good"]}
    ELSE IF kind = "replay"
    THEN {[name |-> "Greet", payload |-> "good"]}
    ELSE [name : InboundCommandNames, payload : Payloads]

\* The runs in which the handlers use their context.
HandlerRuns == {"handlers", "replay"}

\* The empty map.
EmptyMap == [c \in {} |-> ""]

\* ------------------------------------------------------- outbound messages

Subscribe(command_name) ==
    [kind |-> "Subscribe", command |-> command_name, load_factor |-> LoadFactor]

FlowControl(amount) ==
    [kind |-> "FlowControl", permits |-> amount]

\* A CommandResponse that reports every result as a success: the Err arm of
\* the match leaves the response as it was built.
CommandResponseWithoutError(axon_command_result) ==
    [kind |-> "CommandResponse",
     request_identifier |-> axon_command_result.message_identifier,
     payload |-> IF axon_command_result.result.ok
                 THEN axon_command_result.result.response ELSE NoneV,
     error_code |-> "",
     error_message |-> NoneV]

\* The CommandResponse the generator builds from an AxonCommandResult.
CommandResponse(axon_command_result) ==
    [kind |-> "CommandResponse",
     request_identifier |-> axon_command_result.message_identifier,
     payload |-> IF axon_command_result.result.ok
                 THEN axon_command_result.result.response ELSE NoneV,
     error_code |-> IF axon_command_result.result.ok THEN "" ELSE "ERROR",
     error_message |-> IF axon_command_result.result.ok THEN NoneV
                       ELSE Some([message |-> axon_command_result.result.err,
                                  error_code |-> "ERROR"])]

\* An inbound loop that reads the next message while the result of the
\* command before is still waiting to be sent.
MayReadWhileSending(p) == p \in {"read", "send"}

\* loop { match inbound.message().await { ... } }: the next message is read
\* at the head of the loop only, after the arm of the message before has
\* run to its end.
MayRead(p) == p = "read"

\* An inbound loop that gives up after a command that failed.
AfterSendStopOnError(r) == IF r.ok THEN "read" ELSE "returned"

\* Where the inbound loop goes after sending a result: the match arm ends
\* and the loop reads the next message, whatever the result was.
AfterSend(r) == "read"

\* A channel without a bound.
HasCapacityAlways(q) == TRUE

\* channel(10): a send completes only while fewer than 10 results wait.
HasCapacity(q) == Len(q) < QueueCapacity

\* A channel that hands out the result sent last first.
tx_send_to_front(q, axon_command_result) == <<axon_command_result>> \o q

\* An inbound loop that sends only the results of commands that succeeded.
tx_send_only_ok(q, axon_command_result) ==
    IF axon_command_result.result.ok THEN Append(q, axon_command_result) ELSE q

\* tx.send: the result joins the queue behind the results already there.
tx_send(q, axon_command_result) == Append(q, axon_command_result)

\* A loop over the command names that stops before the last one.
AllSubscribedButLast(commands, next) == next >= Len(commands)

\* for command_name in command_box.iter(): the loop has passed every name.
AllSubscribed(commands, next) == next > Len(commands)

\* An initial grant of one batch only.
InitialPermitsOneBatch == permits_batch_size

\* let mut permits = permits_batch_size * 2
InitialPermits == permits_batch_size * 2

\* A top-up only below the batch size.
NeedsTopUpStrict(p) == p < permits_batch_size

\* if permits <= permits_batch_size
NeedsTopUp(p) == p <= permits_batch_size

\* ------------------------------------------------------------------- state

VARIABLES
    run,                            \* the kind of run explored
    command_vec,                    \* the commands collected by register_commands
    command_to_aggregate_mapping,   \* command name -> aggregate name
    cache,                          \* per aggregate definition: id -> Option<(seq, P)>
    store,                          \* the server's event store: id -> events
    pc,                             \* the inbound loop: read, handler, send, returned
    inbound,                        \* the inbound stream: open, ended
    command,                        \* the command being handled
    context,                        \* its AggregateContext
    result,                         \* the result of the last command handled
    queue,                          \* the channel between the two tasks
    gen,                            \* the outbound generator's position
    next_sub,                       \* index of the next command to subscribe
    permits,                        \* the generator's permit counter
    outbound,                       \* the messages the generator has yielded
    nread,                          \* inbound commands read so far
    nemit,                          \* emit calls made so far
    ngp,                            \* get_projection calls made so far
    hist,                           \* what the current command has done so far
    gp,                             \* the last get_projection call of the handler
    handlers,                       \* a handler registry that is being filled
    inserts                         \* the insert calls made on it, with their results

vars == <<run, command_vec, command_to_aggregate_mapping, cache, store, pc, inbound,
          command, context, result, queue, gen, next_sub, permits, outbound,
          nread, nemit, ngp, hist, gp, handlers, inserts>>

call_counters == <<nemit, ngp>>

registry_vars == <<run, command_vec, command_to_aggregate_mapping, handlers, inserts>>
worker_vars == <<run, command_vec, command_to_aggregate_mapping, cache, store, pc,
                 inbound, command, context, result, queue, gen, next_sub, permits,
                 outbound, nread, nemit, ngp, hist, gp>>
generator_vars == <<gen, next_sub, permits, outbound>>

NoCommand == [message_identifier |-> 0, name |-> "", payload |-> "none"]

NoCall == [called |-> FALSE, arg |-> "", prev_id |-> NoneV, prev_seq |-> 0,
           prev_projection |-> <<>>, hit |-> NoneV, ok |-> FALSE, err |-> "",
           queried |-> FALSE]

EmptyCache == [n \in AggregateNames |-> [a \in AggregateIds |-> NoneV]]
EmptyStore == [a \in AggregateIds |-> <<>>]

\* The record kept while no command is being handled.
NoHist ==
    [message_identifier |-> 0, aggregate |-> "", dispatch |-> "",
     cache_before |-> EmptyCache, store_before |-> EmptyStore,
     emitted |-> <<>>, gp_ids |-> <<>>, queries |-> 0, appends |-> <<>>,
     handler |-> "none", trace |-> <<>>]

\* The record of a command that has just been read.
NewHist(c, aggregate_name, outcome) ==
    [message_identifier |-> c.message_identifier,
     aggregate |-> aggregate_name,
     dispatch |-> outcome,
     cache_before |-> cache,
     store_before |-> store,
     emitted |-> <<>>,
     gp_ids |-> <<>>,
     queries |-> 0,
     appends |-> <<>>,
     handler |-> "none",
     trace |-> IF outcome = "handler" THEN <<"await command handler">> ELSE <<>>]

\* The two tasks before their first step, and a handler registry as
\* empty_handler_registry makes it.
IdleInit ==
    /\ handlers = empty_handler_registry
    /\ inserts = <<>>
    /\ cache = EmptyCache
    /\ store = [a \in AggregateIds |->
                   History(a, IF run = "replay" THEN ForeignHistory(a)
                              ELSE InitHistory(a))]
    /\ pc = "read"
    /\ inbound = "open"
    /\ command = NoCommand
    /\ context = NoContext
    /\ result = NoResult
    /\ queue = <<>>
    /\ gen = "subscribe"
    /\ next_sub = 1
    /\ permits = 0
    /\ outbound = <<>>
    /\ nread = 0
    /\ nemit = 0
    /\ ngp = 0
    /\ hist = NoHist
    /\ gp = NoCall

Init ==
    /\ \E the_run \in Runs :
          LET r == register_commands(the_run.order, <<>>, EmptyMap) IN
          /\ run = the_run.kind
          /\ command_vec = r.commands
          /\ command_to_aggregate_mapping = r.mapping
    /\ IdleInit

\* ------------------------------------------------------------ inbound loop

\* The permits granted so far: the sum of the FlowControl messages yielded.
RECURSIVE Granted(_)
Granted(messages) ==
    IF messages = <<>> THEN 0
    ELSE (IF Head(messages).kind = "FlowControl" THEN Head(messages).permits ELSE 0)
         + Granted(Tail(messages))

\* The CommandResponses yielded so far.
Responses(messages) == SelectSeq(messages, LAMBDA m : m.kind = "CommandResponse")

\* inbound.message() yields a command.  The loop looks up the aggregate and
\* handle_command looks up the handler and the payload; a failure there is
\* the command's result, otherwise a fresh context is made and the handler
\* starts.
RecvCommand ==
    /\ MayRead(pc)
    /\ inbound = "open"
    /\ nread < CommandBound(run)
    /\ gen # "subscribe"            \* the server has the subscriptions and permits
    /\ \E inbound_command \in InboundCommands(run) :
          LET name == inbound_command.name
              payload == inbound_command.payload
              c == [message_identifier |-> nread + 1, name |-> name,
                    payload |-> payload]
              outcome == Dispatch(command_to_aggregate_mapping, name, payload)
              aggregate_name == IF name \in DOMAIN command_to_aggregate_mapping
                                THEN command_to_aggregate_mapping[name] ELSE ""
          IN  /\ command' = c
              /\ nread' = nread + 1
              /\ hist' = NewHist(c, aggregate_name, outcome)
              /\ IF outcome = "handler"
                 THEN /\ context' = NewContext(aggregate_name)
                      /\ result' = NoResult
                      /\ pc' = "handler"
                 ELSE /\ context' = NoContext
                      /\ result' = ErrResult(DispatchError(outcome))
                      /\ pc' = "send"
    /\ gp' = NoCall
    /\ UNCHANGED <<registry_vars, generator_vars, call_counters, cache, store,
                   inbound, queue>>

\* A handler hands an error of get_projection on to its caller (the ?
\* operator): after a failed call its only step is to fail.
HandlerMayContinue == ~(gp.called /\ ~gp.ok)

\* The handler calls context.get_projection(aggregate_id).
HandlerGetProjection ==
    /\ pc = "handler"
    /\ HandlerMayContinue
    /\ run \in HandlerRuns
    /\ ngp < MaxGetProjection
    /\ ngp' = ngp + 1
    /\ \E aggregate_id \in AggregateIds, query_ok \in BOOLEAN :
          LET query == [ok |-> query_ok, events |-> store[aggregate_id]]
              r == get_projection(context, cache[context.aggregate_definition],
                                  aggregate_id, query)
          IN  /\ context' = r.context
              /\ cache' = [cache EXCEPT ![context.aggregate_definition] = r.cache]
              /\ gp' = [called |-> TRUE, arg |-> aggregate_id,
                        prev_id |-> context.aggregate_id,
                        prev_seq |-> context.seq,
                        prev_projection |-> context.projection,
                        hit |-> cache[context.aggregate_definition][aggregate_id],
                        ok |-> r.ok, err |-> r.err, queried |-> r.queried]
              /\ hist' = [hist EXCEPT !.gp_ids = Append(@, aggregate_id),
                                       !.queries = @ + (IF r.queried THEN 1 ELSE 0),
                                       !.trace = @ \o r.trace]
    /\ UNCHANGED <<registry_vars, generator_vars, store, pc, inbound, command,
                   result, queue, nread, nemit>>

\* The handler calls context.emit(event_type, event).
HandlerEmit ==
    /\ pc = "handler"
    /\ HandlerMayContinue
    /\ run \in HandlerRuns
    /\ nemit < MaxEmit
    /\ nemit' = nemit + 1
    /\ \E event_type \in EmitTypes :
          /\ context' = emit(context, event_type)
          /\ hist' = [hist EXCEPT !.emitted = Append(@, event_type)]
    /\ UNCHANGED <<registry_vars, generator_vars, cache, store, pc, inbound,
                   command, result, queue, nread, ngp, gp>>

\* A worker that goes on to apply the emitted events and to update the cache
\* after the handler returned an error.
HandlerFailAfterApply ==
    /\ pc = "handler"
    /\ run # "burst"
    /\ LET aggregate_name == context.aggregate_definition
           i == internal_handle_command(context, cache[aggregate_name], NoneV)
       IN  /\ context' = i.context
           /\ cache' = [cache EXCEPT ![aggregate_name] = i.cache]
    /\ result' = ErrResult(IF HandlerMayContinue THEN "Handler error" ELSE gp.err)
    /\ hist' = [hist EXCEPT !.handler = "err"]
    /\ gp' = NoCall
    /\ pc' = "send"
    /\ UNCHANGED <<registry_vars, generator_vars, store, inbound, command,
                   queue, nread, nemit, ngp>>

\* The handler returns an error, its own or the one get_projection gave it:
\* command_handler.handle(...).await? leaves internal_handle_command at once.
HandlerFail ==
    /\ pc = "handler"
    /\ run # "burst"
    /\ result' = ErrResult(IF HandlerMayContinue THEN "Handler error" ELSE gp.err)
    /\ hist' = [hist EXCEPT !.handler = "err"]
    /\ gp' = NoCall
    /\ pc' = "send"
    /\ UNCHANGED <<registry_vars, generator_vars, cache, store, inbound, command,
                   context, queue, nread, nemit, ngp>>

\* The handler returns Ok(r).  internal_handle_command applies the emitted
\* events and updates the cache; handle_command stores the events, the
\* server accepting or rejecting the append.
HandlerReturn ==
    /\ pc = "handler"
    /\ HandlerMayContinue
    /\ \E r \in {NoneV, Some("response")}, append_ok \in BOOLEAN :
          LET aggregate_name == context.aggregate_definition
              w == SubscriptionHandle(HandlerKind(command.name), r)
              i == internal_handle_command(context, cache[aggregate_name], w)
              decision == IF i.ok THEN StoreDecision(i.events, i.aggregate_id)
                          ELSE "failed"
              batch == IF decision = "store"
                       THEN store_events(aggregate_name, i.aggregate_id[1],
                                         i.events, i.seq + 1)
                       ELSE <<>>
          IN  /\ context' = i.context
              /\ cache' = [cache EXCEPT ![aggregate_name] = i.cache]
              /\ store' = IF decision = "store" /\ append_ok
                          THEN [store EXCEPT ![i.aggregate_id[1]] = @ \o batch]
                          ELSE store
              /\ result' = IF decision = "failed" THEN ErrResult(i.err)
                           ELSE IF decision = "missing_id"
                           THEN ErrResult("Missing aggregate id")
                           ELSE IF decision = "store" /\ ~append_ok
                           THEN ErrResult("Append failed")
                           ELSE OkResult(i.result)
              /\ hist' = [hist EXCEPT
                            !.handler = "ok",
                            !.appends = IF decision = "store"
                                        THEN Append(@, [events |-> batch,
                                                        ok |-> append_ok,
                                                        last_stored_seq |-> i.seq])
                                        ELSE @,
                            !.trace = @ \o i.trace
                                        \o (IF decision = "store"
                                            THEN <<"await append_event">> ELSE <<>>)]
    /\ gp' = NoCall
    /\ pc' = "send"
    /\ UNCHANGED <<registry_vars, generator_vars, inbound, command, queue,
                   nread, nemit, ngp>>

\* tx.send(axon_command_result).await: waits while the channel is full.
SendResult ==
    /\ pc = "send"
    /\ HasCapacity(queue)
    /\ queue' = tx_send(queue, [message_identifier |-> command.message_identifier,
                                result |-> result])
    /\ command' = NoCommand
    /\ context' = NoContext
    /\ result' = NoResult
    /\ hist' = NoHist
    /\ gp' = NoCall
    /\ pc' = AfterSend(result)
    /\ UNCHANGED <<registry_vars, generator_vars, cache, store, inbound, nread, nemit,
                   ngp>>

\* inbound.message() yields a message that is no command: nothing is done.
RecvOther ==
    /\ MayRead(pc)
    /\ inbound = "open"
    /\ UNCHANGED vars

\* inbound.message() yields Ok(None): the stream has ended; the loop logs
\* and reads again.
RecvNone ==
    /\ MayRead(pc)
    /\ run = "stream"
    /\ inbound' = "ended"
    /\ UNCHANGED <<registry_vars, generator_vars, cache, store, pc, command,
                   context, result, queue, nread, nemit, ngp, hist, gp>>

\* inbound.message() yields Err: command_worker returns Err(e.code()), which
\* drops tx.  It is the only return of the loop, so pc = "returned" stands
\* for a worker that has returned an error.
RecvError ==
    /\ MayRead(pc)
    /\ run = "stream"
    /\ inbound = "open"
    /\ pc' = "returned"
    /\ UNCHANGED <<registry_vars, generator_vars, cache, store, inbound, command,
                   context, result, queue, nread, nemit, ngp, hist, gp>>

\* ------------------------------------------------------ outbound generator

\* yield the Subscribe of the next command name.
GenSubscribe ==
    /\ gen = "subscribe"
    /\ ~AllSubscribed(command_vec, next_sub)
    /\ outbound' = Append(outbound, Subscribe(command_vec[next_sub]))
    /\ next_sub' = next_sub + 1
    /\ UNCHANGED <<registry_vars, cache, store, pc, inbound, command, context,
                   result, queue, gen, permits, nread, nemit, ngp, hist, gp>>

\* permits = permits_batch_size * 2; yield the initial FlowControl.
GenInitialFlowControl ==
    /\ gen = "subscribe"
    /\ AllSubscribed(command_vec, next_sub)
    /\ permits' = InitialPermits
    /\ outbound' = Append(outbound, FlowControl(permits'))
    /\ gen' = "recv"
    /\ UNCHANGED <<registry_vars, cache, store, pc, inbound, command, context,
                   result, queue, next_sub, nread, nemit, ngp, hist, gp>>

\* rx.recv() yields a result; yield its CommandResponse.
GenRespond ==
    /\ gen = "recv"
    /\ queue # <<>>
    /\ outbound' = Append(outbound, CommandResponse(Head(queue)))
    /\ queue' = Tail(queue)
    /\ gen' = "responded"
    /\ UNCHANGED <<registry_vars, cache, store, pc, inbound, command, context,
                   result, next_sub, permits, nread, nemit, ngp, hist, gp>>

\* Resumed after the response: permits -= 1, and the top-up FlowControl is
\* yielded when the counter calls for it.
GenAfterResponse ==
    /\ gen = "responded"
    /\ permits' = permits - 1
    /\ IF NeedsTopUp(permits')
       THEN /\ outbound' = Append(outbound, FlowControl(permits_batch_size))
            /\ gen' = "topped_up"
       ELSE /\ outbound' = outbound
            /\ gen' = "recv"
    /\ UNCHANGED <<registry_vars, cache, store, pc, inbound, command, context,
                   result, queue, next_sub, nread, nemit, ngp, hist, gp>>

\* Resumed after the top-up: permits += permits_batch_size.
GenAfterTopUp ==
    /\ gen = "topped_up"
    /\ permits' = permits + permits_batch_size
    /\ gen' = "recv"
    /\ UNCHANGED <<registry_vars, cache, store, pc, inbound, command, context,
                   result, queue, next_sub, outbound, nread, nemit, ngp, hist, gp>>

\* rx.recv() yields None: tx is dropped and the queue is empty.
GenComplete ==
    /\ gen = "recv"
    /\ queue = <<>>
    /\ pc = "returned"
    /\ gen' = "done"
    /\ UNCHANGED <<registry_vars, cache, store, pc, inbound, command, context,
                   result, queue, next_sub, permits, outbound, nread, nemit, ngp,
                   hist, gp>>

Next ==
    \/ RecvCommand
    \/ HandlerGetProjection
    \/ HandlerEmit
    \/ HandlerFail
    \/ HandlerReturn
    \/ SendResult
    \/ RecvOther
    \/ RecvNone
    \/ RecvError
    \/ GenSubscribe
    \/ GenInitialFlowControl
    \/ GenRespond
    \/ GenAfterResponse
    \/ GenAfterTopUp
    \/ GenComplete

Spec == Init /\ [][Next]_vars

\* The steps of the outbound generator and those of the inbound loop that
\* wait for nothing but the channel.
GeneratorStep ==
    \/ GenSubscribe
    \/ GenInitialFlowControl
    \/ GenRespond
    \/ GenAfterResponse
    \/ GenAfterTopUp
    \/ GenComplete

HandlingStep ==
    \/ HandlerReturn
    \/ SendResult

\* Both tasks are scheduled: the generator is polled whenever it can yield,
\* a command that is being handled is handled to its end and its result
\* sent.  What the server sends, and when, is not constrained.
FairSpec == Spec /\ WF_vars(GeneratorStep) /\ WF_vars(HandlingStep)

\* ------------------------------------------- filling a handler registry

\* The application fills a handler registry before any worker runs: each
\* step is one call of one of the four insert functions.
RegistryInit ==
    /\ run = "registry"
    /\ command_vec = <<>>
    /\ command_to_aggregate_mapping = EmptyMap
    /\ IdleInit

\* The record of one insert call.
InsertCall(function, name, handle, r) ==
    [function |-> function, name |-> name, handle |-> handle, ok |-> r.ok,
     err |-> r.err]

Insert ==
    /\ Len(inserts) < MaxInserts
    /\ \E name \in HandlerNames, handler \in HandlerFunctions :
          LET r == insert(handlers, name, handler) IN
          /\ handlers' = r.handlers
          /\ inserts' = Append(inserts,
                 InsertCall("insert", name, SubscriptionVoidHandle(name, handler), r))
    /\ UNCHANGED worker_vars

InsertIgnoringOutput ==
    /\ Len(inserts) < MaxInserts
    /\ \E name \in HandlerNames, handler \in HandlerFunctions :
          LET r == insert_ignoring_output(handlers, name, handler) IN
          /\ handlers' = r.handlers
          /\ inserts' = Append(inserts,
                 InsertCall("insert_ignoring_output", name,
                            SubscriptionStructHandle(name, handler, NoneV), r))
    /\ UNCHANGED worker_vars

InsertWithOutput ==
    /\ Len(inserts) < MaxInserts
    /\ \E name \in HandlerNames, handler \in HandlerFunctions :
          LET r == insert_with_output(handlers, name, handler) IN
          /\ handlers' = r.handlers
          /\ inserts' = Append(inserts,
                 InsertCall("insert_with_output", name,
                            SubscriptionStructHandle(name, handler,
                                Some(ResponseWrapper("UNKNOWN", "clone"))), r))
    /\ UNCHANGED worker_vars

InsertWithMappedOutput ==
    /\ Len(inserts) < MaxInserts
    /\ \E name \in HandlerNames, handler \in HandlerFunctions :
          LET r == insert_with_mapped_output(handlers, name, handler,
                                             "GreetedEvent", "wrap")
          IN
          /\ handlers' = r.handlers
          /\ inserts' = Append(inserts,
                 InsertCall("insert_with_mapped_output", name,
                            SubscriptionStructHandle(name, handler,
                                Some(ResponseWrapper("GreetedEvent", "wrap"))), r))
    /\ UNCHANGED worker_vars

RegistryNext ==
    \/ Insert
    \/ InsertIgnoringOutput
    \/ InsertWithOutput
    \/ InsertWithMappedOutput

RegistrySpec == RegistryInit /\ [][RegistryNext]_vars

\* ------------------------------------------------------------------ claims

\* The results with the given message identifier that were sent on the
\* channel: those still queued and those already turned into a response.
Queued(id) ==
    Cardinality({i \in 1..Len(queue) : queue[i].message_identifier = id})

Answered(id) ==
    Cardinality({i \in 1..Len(outbound) :
                    /\ outbound[i].kind = "CommandResponse"
                    /\ outbound[i].request_identifier = id})

InProgress(id) == id = nread /\ pc \in {"handler", "send"}

\* C1 (ack completeness): every command read has exactly one result on the
\* channel once the loop is back at reading, none while it is still being
\* handled, and the response built from the result carries the command's
\* message identifier; nothing is dropped or answered twice.
C1_AckCompleteness ==
    \A id \in 1..nread :
        Queued(id) + Answered(id) = IF InProgress(id) THEN 0 ELSE 1

\* A failed command and a successful one have both been answered.
C1_Witness ==
    /\ pc = "read"
    /\ nread = 2
    /\ \E i, j \in 1..Len(outbound) :
          /\ outbound[i].kind = "CommandResponse"
          /\ outbound[i].request_identifier = 1
          /\ outbound[i].error_code = "ERROR"
          /\ outbound[j].kind = "CommandResponse"
          /\ outbound[j].request_identifier = 2
          /\ outbound[j].error_code = ""

\* C2 (sequence contiguity of one append): the k events of an append carry
\* the sequence numbers last_stored_seq + 1 .. last_stored_seq + k.
C2_SequenceContiguity ==
    \A n \in 1..Len(hist.appends) :
        \A k \in 1..Len(hist.appends[n].events) :
            hist.appends[n].events[k].aggregate_sequence_number
                = hist.appends[n].last_stored_seq + k

\* C3 (stream contiguity): the events appended for an aggregate carry the
\* sequence numbers 0 .. N-1 in ascending order, the first one 0.
C3_StreamContiguity ==
    \A a \in AggregateIds :
        \A i \in 1..Len(store[a]) :
            store[a][i].aggregate_sequence_number = i - 1

\* The aggregate id an append was issued for.
AppendId(append) == append.events[1].aggregate_identifier

\* C4 (persist-failure rollback): when the append of a command fails, the
\* command's result is an error and the cache entry of its aggregate is the
\* one from before the command.
C4_PersistFailureRollback ==
    \A n \in 1..Len(hist.appends) :
        ~hist.appends[n].ok =>
            /\ ~result.ok
            /\ cache[hist.aggregate][AppendId(hist.appends[n])]
                 = hist.cache_before[hist.aggregate][AppendId(hist.appends[n])]

\* The fold of events under the sourcing handlers, from the empty projection.
Fold(events) == Replay(events, <<>>, UninitialisedSeq).projection

\* C5 (cache coherence): a cache entry (seq, P) of aggregate a holds the fold
\* of the persisted events 0..seq of a.
C5_CacheCoherence ==
    \A n \in AggregateNames, a \in AggregateIds :
        cache[n][a] # NoneV =>
            /\ cache[n][a][1].seq + 1 <= Len(store[a])
            /\ cache[n][a][1].projection
                 = Fold(SubSeq(store[a], 1, cache[n][a][1].seq + 1))

\* C6 (inconsistent aggregate id): get_projection called with an id other
\* than the one the context has fails with an inconsistent-id error and
\* leaves the context's projection and seq as they were, without a query.
C6_InconsistentAggregateId ==
    (gp.called /\ gp.prev_id # NoneV /\ gp.prev_id # Some(gp.arg)) =>
        /\ ~gp.ok
        /\ gp.err = "Inconsistent aggregate_id"
        /\ ~gp.queried
        /\ context.seq = gp.prev_seq
        /\ context.projection = gp.prev_projection

\* A handler that returned Ok after emitting without any get_projection.
EmittedWithoutId ==
    /\ pc = "send"
    /\ hist.handler = "ok"
    /\ hist.emitted # <<>>
    /\ hist.gp_ids = <<>>

\* C7 (missing aggregate id): such a command ends in the error "Missing
\* aggregate id", no append is issued and cache and store are untouched.
C7_MissingAggregateId ==
    EmittedWithoutId =>
        /\ result = ErrResult("Missing aggregate id")
        /\ hist.appends = <<>>
        /\ cache = hist.cache_before
        /\ store = hist.store_before

C7_Witness ==
    /\ EmittedWithoutId
    /\ Len(hist.emitted) = 2
    /\ ~result.ok

\* C8 (one aggregate per command): a command issues at most one append, and
\* each of its events carries the id of the handler's first get_projection
\* call and the projection name of the aggregate definition.
C8_OneAggregatePerCommand ==
    /\ Len(hist.appends) <= 1
    /\ \A n \in 1..Len(hist.appends) :
          \A k \in 1..Len(hist.appends[n].events) :
              /\ hist.gp_ids # <<>>
              /\ hist.appends[n].events[k].aggregate_identifier = hist.gp_ids[1]
              /\ hist.appends[n].events[k].aggregate_type = hist.aggregate

\* An append of two events by a Counter handler that asked for two ids.
C8_Witness ==
    /\ pc = "send"
    /\ hist.aggregate = "Counter"
    /\ Len(hist.appends) = 1
    /\ hist.appends[1].ok
    /\ Len(hist.appends[1].events) = 2
    /\ Len(hist.gp_ids) = 2
    /\ hist.gp_ids[1] # hist.gp_ids[2]

\* The sequence number of the last event stored in a stream (-1: none).
LastStoredSeq(events) ==
    IF events = <<>> THEN -1
    ELSE events[Len(events)].aggregate_sequence_number

PayloadTypes(events) == [k \in 1..Len(events) |-> events[k].payload[1]]

\* C9 (emission order): the events of an append are the emitted events in
\* the order of the emit calls, and the first carries the sequence number
\* after the last one stored for the aggregate when the command began.
C9_EmissionOrder ==
    \A n \in 1..Len(hist.appends) :
        /\ PayloadTypes(hist.appends[n].events) = hist.emitted
        /\ hist.appends[n].events[1].aggregate_sequence_number
             = LastStoredSeq(hist.store_before[AppendId(hist.appends[n])]) + 1

\* Permits granted minus responses sent.
Balance == Granted(outbound) - Len(Responses(outbound))

\* C10 as stated (flow-control solvency): whenever the generator waits for
\* the next result the balance equals the initial grant, and it is never
\* negative.
C10_BalanceIsInitialGrant ==
    /\ gen = "recv" => Balance = 2 * permits_batch_size
    /\ Balance >= 0

\* C10 as amended: whenever the generator waits for the next result the
\* balance equals its permit counter, which lies between the batch size plus
\* one and the initial grant; the balance is never negative.
C10_BalanceWithinGrant ==
    /\ gen = "recv" =>
          /\ Balance = permits
          /\ permits >= permits_batch_size + 1
          /\ permits <= 2 * permits_batch_size
    /\ Balance >= 0

\* The generator waits again after the top-up that followed three responses.
C10_Witness ==
    /\ gen = "recv"
    /\ Len(Responses(outbound)) = 3
    /\ Granted(outbound) = 3 * permits_batch_size

\* The CommandResponses and the FlowControls yielded before position i.
ResponsesBefore(i) ==
    Cardinality({j \in 1..(i - 1) : outbound[j].kind = "CommandResponse"})

FlowControlsBefore(i) ==
    Cardinality({j \in 1..(i - 1) : outbound[j].kind = "FlowControl"})

FlowControls == SelectSeq(outbound, LAMBDA m : m.kind = "FlowControl")

\* C11 as stated (permit top-up scenario): the stream holds one initial
\* FlowControl(6); the first additional FlowControl(3) comes after the 4th
\* CommandResponse, when the permit counter has dropped to 2; with five
\* responses yielded there is exactly one FlowControl(6).
C11_TopUpAfterFourth ==
    /\ \A i \in 1..Len(outbound) :
          (outbound[i].kind = "FlowControl" /\ FlowControlsBefore(i) = 1) =>
              /\ outbound[i].permits = permits_batch_size
              /\ ResponsesBefore(i) = 4
    /\ (gen = "topped_up" /\ Len(FlowControls) = 2) => permits = 2
    /\ Len(Responses(outbound)) = 5 =>
          Len(SelectSeq(FlowControls, LAMBDA m : m.permits = 6)) = 1

\* C11 as amended: the first FlowControl is the initial one of 6 permits and
\* precedes every response; the k-th additional FlowControl grants 3 permits
\* and comes right after the 3k-th CommandResponse, when the permit counter
\* has dropped to 3; so with five responses yielded the stream holds
\* FlowControl(6), three responses, FlowControl(3), two responses.
C11_TopUpAfterThird ==
    /\ \A i \in 1..Len(outbound) :
          outbound[i].kind = "FlowControl" =>
              IF FlowControlsBefore(i) = 0
              THEN /\ outbound[i].permits = 2 * permits_batch_size
                   /\ ResponsesBefore(i) = 0
              ELSE /\ outbound[i].permits = permits_batch_size
                   /\ ResponsesBefore(i) = 3 * FlowControlsBefore(i)
                   /\ outbound[i - 1].kind = "CommandResponse"
    /\ gen = "topped_up" => permits = permits_batch_size
    /\ gen = "recv" => Len(FlowControls) = 1 + (Len(Responses(outbound)) \div 3)
    /\ Len(Responses(outbound)) = 5 =>
          FlowControls = <<FlowControl(6), FlowControl(3)>>

\* Five commands were read before the generator yielded the first response,
\* and all five have been answered.
C11_Witness ==
    /\ gen = "recv"
    /\ nread = 5
    /\ queue = <<>>
    /\ pc = "read"
    /\ Len(Responses(outbound)) = 5
    /\ Len(FlowControls) = 2

\* C12 (startup ordering): the stream begins with one Subscribe of load
\* factor 100 per collected command name, in the order of the command list;
\* the next message is the initial FlowControl of 6 permits; every message
\* after it is a CommandResponse or a top-up FlowControl, never a Subscribe.
C12_StartupOrdering ==
    \A i \in 1..Len(outbound) :
        IF i <= Len(command_vec)
        THEN outbound[i] = [kind |-> "Subscribe", command |-> command_vec[i],
                            load_factor |-> 100]
        ELSE IF i = Len(command_vec) + 1
        THEN outbound[i] = [kind |-> "FlowControl", permits |-> 6]
        ELSE \/ outbound[i].kind = "CommandResponse"
             \/ outbound[i] = [kind |-> "FlowControl", permits |-> 3]

\* Both subscriptions, the initial grant, three responses and a top-up have
\* been yielded, the Counter aggregate having been iterated first.
C12_Witness ==
    /\ command_vec = <<"Count", "Greet">>
    /\ Len(outbound) = Len(command_vec) + 5
    /\ outbound[Len(outbound)].kind = "FlowControl"

\* C13 as stated (backpressure): the channel never holds more than 10
\* results, and while it holds 10 the inbound loop handles no further
\* message.
C13_NoHandlingWhileFull ==
    /\ Len(queue) <= 10
    /\ Len(queue) = 10 => pc # "handler"

\* C13 as amended: the channel never holds more than 10 results; once the
\* inbound loop has reached send with 10 results in the channel it stays
\* there, reading and handling nothing, until the generator has taken a
\* result.  (A full channel does not stop the loop from reading and handling
\* one more command: it blocks only when it sends that command's result.)
C13_SendBlocksWhileFull ==
    [][/\ Len(queue') <= 10
       /\ (Len(queue) = 10 /\ pc = "send") =>
             \/ Len(queue') < 10
             \/ /\ pc' = "send"
                /\ nread' = nread
                /\ command' = command
                /\ result' = result
                /\ cache' = cache
                /\ store' = store]_vars

\* The eleventh result waits in send behind ten results in the channel.
C13_Witness ==
    /\ Len(queue) = 10
    /\ pc = "send"
    /\ nread = 11

\* C14 (only a transport error terminates the worker): the worker returns
\* only from reading the open inbound stream; after sending the result of a
\* command, failed or not, and after reading the end of the stream the
\* inbound loop is back at reading; a worker that has returned stays so.
C14_OnlyTransportErrorTerminates ==
    [][/\ (pc' = "returned" /\ pc # "returned") =>
             /\ pc = "read"
             /\ inbound = "open"
             /\ queue' = queue
             /\ nread' = nread
       /\ pc = "send" => pc' \in {"send", "read"}
       /\ (pc = "send" /\ pc' = "read") => Len(queue') = Len(queue) + 1
       /\ (pc = "read" /\ inbound' = "ended") => pc' = "read"
       /\ pc = "handler" => pc' \in {"handler", "send"}]_vars

\* The loop is reading again after a failed command, a second command and
\* the end of the inbound stream.
C14_Witness ==
    /\ pc = "read"
    /\ inbound = "ended"
    /\ nread = 2
    /\ \E i \in 1..Len(outbound) :
          /\ outbound[i].kind = "CommandResponse"
          /\ outbound[i].request_identifier = 1
          /\ outbound[i].error_code = "ERROR"

\* C15 (cancellation): once the inbound stream has ended or the reading of
\* it has failed, the outbound generator eventually completes.
C15_Cancellation ==
    (inbound = "ended" \/ pc = "returned") ~> gen = "done"

\* C16 (command-name uniqueness at registration): the command list that
\* register_commands produced holds no command name twice, so that no
\* command is subscribed twice.  (register_commands returns nothing, so a
\* report of a conflict has no place in the state: a registry with a
\* conflict shows in the list.)
C16_CommandNamesUnique ==
    /\ \A i, j \in 1..Len(command_vec) :
          i # j => command_vec[i] # command_vec[j]
    /\ \A i, j \in 1..Len(outbound) :
          (i # j /\ outbound[i].kind = "Subscribe" /\ outbound[j].kind = "Subscribe")
              => outbound[i].command # outbound[j].command

\* The first insert call made with the given name.
FirstInsert(name) ==
    inserts[CHOOSE i \in 1..Len(inserts) :
                /\ inserts[i].name = name
                /\ \A j \in 1..(i - 1) : inserts[j].name # name]

\* C17 (handler-registry uniqueness): an insert call succeeds exactly when
\* no earlier call had its name, and fails with "already registered"
\* otherwise; get(name) returns the handle of the first call made with the
\* name, whatever was inserted under it afterwards, and nothing for a name
\* that was never inserted.
C17_HandlerRegistryUniqueness ==
    /\ \A i \in 1..Len(inserts) :
          IF \E j \in 1..(i - 1) : inserts[j].name = inserts[i].name
          THEN ~inserts[i].ok /\ inserts[i].err = "Handler already registered"
          ELSE inserts[i].ok
    /\ \A name \in HandlerNames :
          IF \E i \in 1..Len(inserts) : inserts[i].name = name
          THEN get(handlers, name) = Some(FirstInsert(name).handle)
          ELSE get(handlers, name) = NoneV

\* Each of the four functions in turn inserted a first handler under a name
\* and was turned down under that name later.
InsertTurnedDown(function) ==
    \E i, j \in 1..Len(inserts) :
        /\ i < j
        /\ inserts[i].name = inserts[j].name
        /\ inserts[i].handle # inserts[j].handle
        /\ inserts[i].ok
        /\ inserts[j].function = function
        /\ ~inserts[j].ok
        /\ handlers[inserts[i].name] = inserts[i].handle

C17_Witness ==
    /\ Len(inserts) = 3
    /\ InsertTurnedDown("insert_with_output")
    /\ DOMAIN handlers = HandlerNames

\* The commands of an aggregate, as a set.
CommandNameSet(aggregate_name) ==
    {command_names(aggregate_name)[i] : i \in 1..Len(command_names(aggregate_name))}

\* The error that a command meets before any handler runs ("" if none).
PreHandlerFailure(mapping, c) ==
    IF c.name \notin DOMAIN mapping THEN "Could not find aggregate handler"
    ELSE IF c.name \notin CommandNameSet(mapping[c.name]) THEN "Missing command handler"
    ELSE IF c.payload = "none" THEN "No payload data"
    ELSE ""

\* The maps from command names to aggregates that the dispatch is tried on.
DispatchMaps == [HandlerNames -> AggregateNames]

\* C18 (failures before the handler runs): a command whose name is not in
\* the command-to-aggregate map, whose aggregate has no handler for it, or
\* that has no payload (looked at after the handler) ends in the matching
\* error without a handler having run: no context, no emit, no
\* get_projection and so no query, no append, cache and store as before,
\* and the response built from the result has error_code "ERROR".  The first
\* conjunct is about the command being handled; the second tries the lookups
\* on every map, because the map that register_commands builds never sends a
\* name to an aggregate without a handler for it.
C18_FailuresBeforeHandler ==
    /\ (command # NoCommand
            /\ PreHandlerFailure(command_to_aggregate_mapping, command) # "") =>
          /\ pc = "send"
          /\ result = ErrResult(PreHandlerFailure(command_to_aggregate_mapping, command))
          /\ context = NoContext
          /\ hist.handler = "none"
          /\ hist.emitted = <<>>
          /\ hist.gp_ids = <<>>
          /\ hist.appends = <<>>
          /\ ~gp.called
          /\ cache = hist.cache_before
          /\ store = hist.store_before
          /\ CommandResponse([message_identifier |-> command.message_identifier,
                              result |-> result]).error_code = "ERROR"
    /\ \A m \in DispatchMaps, name \in InboundCommandNames, payload \in Payloads :
          LET c == [message_identifier |-> 1, name |-> name, payload |-> payload]
              outcome == Dispatch(m, name, payload)
          IN  IF PreHandlerFailure(m, c) # ""
              THEN /\ outcome \in {"no_aggregate", "missing_handler", "missing_payload"}
                   /\ DispatchError(outcome) = PreHandlerFailure(m, c)
              ELSE outcome \in {"handler", "decode_error"}

\* A command without payload waits in send with its error while the cache
\* holds the entry that an earlier command made.
C18_Witness ==
    /\ pc = "send"
    /\ command.name = "Greet"
    /\ command.payload = "none"
    /\ result = ErrResult("No payload data")
    /\ cache["Greeting"]["a"] # NoneV

Contiguous(events) ==
    \A i \in 1..Len(events) : events[i].aggregate_sequence_number = i - 1

\* The fold of events from the empty projection, in their order: the types
\* of those whose sourcing handler hands back a projection.
FoldInOrder(events) ==
    SelectSeq(PayloadTypes(events), LAMBDA type : type \in {"A", "B"})

\* C20 (cold start replay): a get_projection call that misses the cache for
\* an aggregate with the events 0..N-1 on the server, N >= 1, and whose query
\* is answered, folds those events in order from the empty projection and
\* sets seq to N - 1; a handler that made this one call and then emitted one
\* event, of a type that has a sourcing handler, causes one append of one
\* event with sequence number N, after which the cache holds (N, P), P being
\* the fold of the N + 1 events.
C20_ColdStartReplay ==
    /\ (/\ gp.called
        /\ gp.hit = NoneV
        /\ gp.err # "Event query failed"
        /\ store[gp.arg] # <<>>
        /\ Contiguous(store[gp.arg])) =>
          /\ gp.ok
          /\ gp.queried
          /\ context.seq = Len(store[gp.arg]) - 1
          /\ context.projection = FoldInOrder(store[gp.arg])
    /\ \A a \in AggregateIds :
          (/\ pc = "send"
           /\ hist.handler = "ok"
           /\ hist.gp_ids = <<a>>
           /\ hist.queries = 1
           /\ hist.cache_before[hist.aggregate][a] = NoneV
           /\ hist.store_before[a] # <<>>
           /\ Contiguous(hist.store_before[a])
           /\ Len(hist.emitted) = 1
           /\ hist.emitted[1] \in SourcingHandlerNames) =>
              /\ Len(hist.appends) = 1
              /\ Len(hist.appends[1].events) = 1
              /\ hist.appends[1].events[1].aggregate_sequence_number
                   = Len(hist.store_before[a])
              /\ cache[hist.aggregate][a]
                   = Some([seq |-> Len(hist.store_before[a]),
                           projection |->
                               FoldInOrder(hist.store_before[a]
                                           \o hist.appends[1].events)])

\* C21 (context monotonicity): while one command is executed, from the start
\* of its handler to the end of internal_handle_command, no step lowers the
\* context's seq, and no step changes an aggregate_id that the context has.
C21_ContextMonotonicity ==
    [][(pc = "handler" /\ pc' \in {"handler", "send"}) =>
          /\ context'.seq >= context.seq
          /\ context.aggregate_id # NoneV =>
                context'.aggregate_id = context.aggregate_id]_vars

\* The half of C21 about the aggregate id: once set, it stays.
C21_AggregateIdSetOnce ==
    [][(pc = "handler" /\ pc' \in {"handler", "send"}
        /\ context.aggregate_id # NoneV) =>
          context'.aggregate_id = context.aggregate_id]_vars

\* The last message of a non-empty stream.
Last(messages) == messages[Len(messages)]

\* C22 (response encoding): every step that takes a result from the queue
\* yields exactly one message, a CommandResponse for that result's command.
\* For a success error_code is "", error_message is absent and payload is
\* the response of the result (absent when there is none); for an error
\* error_code is "ERROR", error_message is present with error_code "ERROR"
\* and the error's text, and payload is absent.  No CommandResponse on the
\* stream carries both a payload and an error.
C22_ResponseEncoding ==
    [][/\ queue' # queue /\ Len(queue') < Len(queue) =>
          /\ queue' = Tail(queue)
          /\ Len(outbound') = Len(outbound) + 1
          /\ SubSeq(outbound', 1, Len(outbound)) = outbound
          /\ LET taken == Head(queue)
                 m == Last(outbound')
             IN  /\ m.kind = "CommandResponse"
                 /\ m.request_identifier = taken.message_identifier
                 /\ taken.result.ok =>
                       /\ m.error_code = ""
                       /\ m.error_message = NoneV
                       /\ m.payload = taken.result.response
                 /\ ~taken.result.ok =>
                       /\ m.error_code = "ERROR"
                       /\ m.error_message # NoneV
                       /\ m.error_message[1].error_code = "ERROR"
                       /\ m.error_message[1].message = taken.result.err
                       /\ m.payload = NoneV
       /\ \A i \in 1..Len(outbound') :
             outbound'[i].kind = "CommandResponse" =>
                ~(outbound'[i].payload # NoneV /\ outbound'[i].error_message # NoneV)
      ]_vars

\* The stream holds the response of a command that succeeded with a payload,
\* of one that succeeded without, and of one that failed.
C22_Witness ==
    /\ \E i \in 1..Len(outbound) :
          /\ outbound[i].kind = "CommandResponse"
          /\ outbound[i].error_code = ""
          /\ outbound[i].payload = Some("response")
    /\ \E i \in 1..Len(outbound) :
          /\ outbound[i].kind = "CommandResponse"
          /\ outbound[i].error_code = ""
          /\ outbound[i].payload = NoneV
    /\ \E i \in 1..Len(outbound) :
          /\ outbound[i].kind = "CommandResponse"
          /\ outbound[i].error_code = "ERROR"
          /\ outbound[i].error_message # NoneV
          /\ outbound[i].error_message[1].message = "Handler error"

\* C23 (post-handler apply and cache update): after a handler that has set
\* the aggregate id and emitted k >= 1 events, each of a type that has a
\* sourcing handler, has returned Ok, the context's seq is last_stored_seq + k
\* and the cache holds (last_stored_seq + k, the context's projection) under
\* the aggregate id, whether the server accepted the one append or not.
C23_PostHandlerApply ==
    (/\ pc = "send"
     /\ hist.handler = "ok"
     /\ context.aggregate_id # NoneV
     /\ Len(hist.emitted) >= 1
     /\ \A n \in 1..Len(hist.emitted) : hist.emitted[n] \in SourcingHandlerNames) =>
        /\ Len(hist.appends) = 1
        /\ LET k == Len(hist.emitted)
               last_stored_seq == hist.appends[1].last_stored_seq
           IN  /\ context.seq = last_stored_seq + k
               /\ cache[hist.aggregate][context.aggregate_id[1]]
                    = Some([seq |-> last_stored_seq + k,
                            projection |-> context.projection])

\* C24 (top-up rule): resumed after a CommandResponse the generator takes 1
\* from its permit counter and yields FlowControl(B) directly after that
\* response exactly when the counter is then <= B, and resumed after that
\* FlowControl it adds B to the counter.  Every FlowControl on the stream
\* carries a positive amount, 2 * B the first and B the others, and whenever
\* the generator waits for a result the counter is in B + 1 .. 2 * B.
C24_TopUpRule ==
    [][/\ (gen = "responded" /\ gen' # gen) =>
             /\ Last(outbound).kind = "CommandResponse"
             /\ permits' = permits - 1
             /\ IF permits' <= permits_batch_size
                THEN outbound' = Append(outbound, FlowControl(permits_batch_size))
                ELSE outbound' = outbound /\ gen' = "recv"
       /\ (gen = "topped_up" /\ gen' # gen) =>
             /\ permits' = permits + permits_batch_size
             /\ outbound' = outbound
       /\ gen' = "recv" =>
             permits' \in (permits_batch_size + 1)..(2 * permits_batch_size)
       /\ \A i \in 1..Len(outbound') :
             outbound'[i].kind = "FlowControl" =>
                /\ outbound'[i].permits > 0
                /\ outbound'[i].permits =
                      IF \A j \in 1..(i - 1) : outbound'[j].kind # "FlowControl"
                      THEN 2 * permits_batch_size ELSE permits_batch_size
      ]_vars

\* The generator waits for the seventh result: it has yielded six responses
\* and topped up after the third and after the sixth.
C24_Witness ==
    /\ gen = "recv"
    /\ Len(Responses(outbound)) = 6
    /\ Len(FlowControls) = 3
    /\ permits = 2 * permits_batch_size
    /\ outbound[Len(outbound)].kind = "FlowControl"
    /\ outbound[Len(outbound) - 1].kind = "CommandResponse"

\* The commands whose result has been sent: those waiting in the queue and
\* those the generator has answered.
Finished == Len(queue) + Len(Responses(outbound))

\* C25 (sequential command handling): at most one command is in progress at
\* any time, and the inbound loop reads a command only when none is: the
\* handler, the apply, the cache update, the append and the enqueue of the
\* result of every command read before have finished.
C25_SequentialHandling ==
    [][/\ nread' # nread =>
             /\ nread' = nread + 1
             /\ pc = "read"
             /\ command = NoCommand
             /\ hist = NoHist
             /\ Finished = nread
       /\ nread' - Finished' \in {0, 1}
       /\ nread' - Finished' = 1 <=> pc' \in {"handler", "send"}
       /\ nread' - Finished' = 1 => command'.message_identifier = nread'
      ]_vars

\* A second command is being handled after the first one's handler has
\* stored an event and its result has been enqueued.
C25_Witness ==
    /\ pc = "handler"
    /\ nread = 2
    /\ Finished = 1
    /\ command.message_identifier = 2
    /\ \E a \in AggregateIds : Len(store[a]) > Len(InitHistory(a))

\* The guards of the cache lock alive after the operations of a trace.
RECURSIVE Held(_)
Held(trace) ==
    IF trace = <<>> THEN 0
    ELSE (IF Head(trace) = "lock" THEN 1
          ELSE IF Head(trace) = "unlock" THEN -1 ELSE 0) + Held(Tail(trace))

Awaits ==
    {"await command handler", "await query", "await sourcing handler",
     "await context lock", "await append_event"}

\* C26 (cache-lock discipline): at every await that the handling of a command
\* has passed (of the command handler, the event query, a sourcing handler,
\* the context lock, the append) no guard of the cache lock was alive; the
\* lock was never asked for while a guard was alive; and none is alive where
\* the inbound loop is suspended now: in the handler, in the send of the
\* result, or in the read of the next message.
C26_CacheLockDiscipline ==
    /\ \A n \in 1..Len(hist.trace) :
          /\ hist.trace[n] \in Awaits \cup {"lock", "unlock"}
          /\ hist.trace[n] \in Awaits \cup {"lock"} =>
                Held(SubSeq(hist.trace, 1, n - 1)) = 0
          /\ hist.trace[n] = "unlock" =>
                Held(SubSeq(hist.trace, 1, n - 1)) = 1
    /\ Held(hist.trace) = 0

\* A command whose result waits to be sent took the cache lock three times:
\* for the lookup and for the put of get_projection, with the query and the
\* two sourcing handlers of the replay between them, and for the put after
\* the emitted event was applied, which came before the append.
C26_Witness ==
    /\ pc = "send"
    /\ hist.trace = <<"await command handler",
                      "lock", "unlock", "await query",
                      "await sourcing handler", "await sourcing handler",
                      "lock", "unlock",
                      "await context lock", "await sourcing handler",
                      "lock", "unlock", "await append_event">>

\* The payload types that have no sourcing handler.
Unhandled(types) == \E n \in 1..Len(types) : types[n] = "X"

C28_ResponsesKeepOrder ==
    [][/\ \A k \in 1..Len(Responses(outbound')) :
             Responses(outbound')[k].request_identifier = k
       /\ \A j \in 1..Len(queue') :
             queue'[j].message_identifier = Len(Responses(outbound')) + j
       /\ Len(Responses(outbound')) + Len(queue') <= nread'
       /\ Len(Responses(outbound')) # Len(Responses(outbound)) =>
             /\ Len(Responses(outbound')) = Len(Responses(outbound)) + 1
             /\ queue # <<>>
             /\ queue' = Tail(queue)
             /\ Last(outbound').request_identifier = Head(queue).message_identifier
      ]_vars

\* The generator has answered the first command while the results of the
\* second and the third wait in the queue.
C28_Witness ==
    /\ Len(Responses(outbound)) = 1
    /\ Responses(outbound)[1].request_identifier = 1
    /\ Len(queue) = 2
    /\ queue[1].message_identifier = 2
    /\ queue[2].message_identifier = 3

\* C29 (a failing handler persists nothing): the step in which a handler
\* returns an error, and the step in which the decoding of a command's
\* payload fails, change neither the event store nor the cache nor the
\* context: the emitted events are not applied.  When the result of such a
\* command is about to be sent, which is an error, no append has been issued
\* for the command, the event store is as it was when the command was read,
\* and a cache entry that differs from then belongs to an aggregate id that
\* the handler passed to get_projection and holds the replay of the events
\* stored for that id.
C29_FailingHandlerPersistsNothing ==
    [][/\ (pc = "handler" /\ hist'.handler = "err") =>
             /\ pc' = "send"
             /\ ~result'.ok
             /\ store' = store
             /\ cache' = cache
             /\ context' = context
       /\ (pc = "read" /\ hist'.dispatch = "decode_error") =>
             /\ pc' = "send"
             /\ ~result'.ok
             /\ store' = store
             /\ cache' = cache
       /\ (pc' = "send" /\ (hist'.handler = "err" \/ hist'.dispatch = "decode_error")) =>
             /\ ~result'.ok
             /\ hist'.appends = <<>>
             /\ store' = hist'.store_before
             /\ \A n \in AggregateNames, a \in AggregateIds :
                   cache'[n][a] # hist'.cache_before[n][a] =>
                      /\ n = hist'.aggregate
                      /\ \E k \in 1..Len(hist'.gp_ids) : hist'.gp_ids[k] = a
                      /\ cache'[n][a] =
                            Some([seq |-> LastStoredSeq(store'[a]),
                                  projection |-> FoldInOrder(store'[a])])
      ]_vars

\* A handler has read the stream of "a", emitted two events and failed: the
\* cache holds the replay of the two events stored for "a" and nothing of the
\* emitted ones, and the event store is as it was.
C29_Witness ==
    /\ pc = "send"
    /\ hist.handler = "err"
    /\ result.err = "Handler error"
    /\ hist.gp_ids = <<"a">>
    /\ Len(hist.emitted) = 2
    /\ context.events = hist.emitted
    /\ hist.cache_before["Greeting"]["a"] = NoneV
    /\ cache["Greeting"]["a"] = Some([seq |-> 1, projection |-> <<"A", "B">>])
    /\ hist.appends = <<>>
    /\ store = hist.store_before

====
